---- MODULE Spec2Model ----
(***************************************************************************)
(* Model of scripts/utils/moitor.py: SystemMonitor (the resource sampler)  *)
(* and its command-line entry point main().                                *)
(*                                                                         *)
(* One SystemMonitor instance is followed from construction to the end of  *)
(* its monitor() calls.  The environment is the target process (it may     *)
(* exit, or refuse access to its counters), the wall clock (read by        *)
(* datetime.now() and time.time()), the interrupt source (KeyboardInterrupt*)
(* delivered to the blocking loop) and the file system (open and write may *)
(* fail).                                                                  *)
(*                                                                         *)
(* Granularity.  The statements of one loop iteration are three positions: *)
(* the while condition (line 42), the collection with its append (lines    *)
(* 43-45) and the sleep (line 46).  The finally block is three positions:  *)
(* the open (line 51), the dump (lines 52-57) and the return (line 59).    *)
(* The wall clock never steps backwards (datetime.now() is taken to be     *)
(* non-decreasing; two reads may return the same instant).                 *)
(*                                                                         *)
(* Spec follows one instance (command line or library use); SpecLive is    *)
(* the command line with fair loop steps; SpecPair runs two instances in   *)
(* one output directory.                                                   *)
(***************************************************************************)
EXTENDS Integers, Sequences, FiniteSets, TLC

\* ------------------------------------------------------------------ bounds
MaxTime == 3          \* last instant of the wall clock, in clock ticks
TicksPerSec == 2      \* clock ticks in one second (scaled microseconds)
MaxTicks == 2         \* most collection ticks in one monitor() call
MaxCalls == 2         \* most monitor() calls on the instance (library use)
MaxPid == 1           \* process identifiers are 1..MaxPid

VARIABLES
  caller,       \* "main": the command line (lines 61-73); "lib": a program using the class
  now,          \* the wall clock
  alive,        \* the target process exists
  access,       \* the target's counters may be read by the current user
  freq,         \* what psutil.cpu_freq() does on this host: "value", "none" or "raises"
  inst,         \* "none", "ok" (constructed) or "failed" (constructor raised)
  pid,          \* self.pid
  start_time,   \* self.start_time, in ISO form; None_ before construction
  pc,           \* position of the thread of control
  metrics,      \* the local list metrics of monitor()
  output_file,  \* the local output_file of monitor(): its numeric token; NoToken before
  pending,      \* exception in flight when the finally block is entered
  fs,           \* output directory: token -> file content
  outcome,      \* how the last monitor() call finished
  printed,      \* token of the path printed by main(); NoToken if none
  exitCode,     \* exit status of the command line; -1 while it has not ended
  writeFault,   \* what went wrong inside the finally block of the current call
  \* history variables (not program state)
  sessions,     \* monitor() calls started on the instance
  writes,       \* completed artifact writes by the instance
  written,      \* the current monitor() call completed its write
  ticks,        \* collect_metrics() calls in the current monitor() call
  collected,    \* samples returned by collect_metrics() in the current call
  goneSignal,   \* a tick of the current call returned None
  loopExit,     \* how the loop of the current call was left
  ctorView,     \* <<alive, access>> as they were when the constructor ran
  goodTicks,    \* ticks of the current call whose mandatory reads all succeeded
  lastStep,     \* last loop step of the current call: "call", "alive", "ended", "collect", "sleep"
  \* two instances side by side (specification SpecPair)
  samplers,     \* instance name -> its fields, locals and position
  palive,       \* process identifier -> the process exists
  dir           \* output directory: file name -> file content

vars == <<caller, now, alive, access, inst, pid, start_time, pc, metrics,
          output_file, pending, fs, outcome, printed, writeFault, sessions,
          writes, written, ticks, collected, goneSignal, loopExit, ctorView,
          freq, exitCode, goodTicks, lastStep, samplers, palive, dir>>

envVars == <<now, alive, access>>
histVars == <<sessions, writes, written, ticks, collected, goneSignal, loopExit, ctorView>>
stepVars == <<goodTicks, lastStep>>
pairVars == <<samplers, palive, dir>>
auxVars == <<freq, samplers, palive, dir>>

\* ------------------------------------------------------------- timestamps
None_ == <<>>
NoToken == -1

\* int(time.time()): whole seconds of the instant t
Second(t) == t \div TicksPerSec

Frac(t) == t % TicksPerSec

\* datetime.isoformat(): the fractional part is omitted when it is zero
IsoFormat(t) == IF Frac(t) = 0 THEN <<Second(t)>> ELSE <<Second(t), Frac(t)>>

\* order of two ISO texts, as a reader of the artifact compares them
RECURSIVE IsoLeq(_, _)
IsoLeq(a, b) ==
  IF a = <<>> THEN TRUE
  ELSE IF b = <<>> THEN FALSE
  ELSE IF Head(a) < Head(b) THEN TRUE
  ELSE IF Head(a) > Head(b) THEN FALSE
  ELSE IsoLeq(Tail(a), Tail(b))

Tokens == 0..Second(MaxTime)

\* ------------------------------------------------------------ file system
NoFile == [kind |-> "none", pid |-> 0, start_time |-> None_, end_time |-> None_, metrics |-> <<>>]

\* a file that open('w') created or truncated and json.dump did not complete
PartialFile == [kind |-> "partial", pid |-> 0, start_time |-> None_, end_time |-> None_, metrics |-> <<>>]

\* the dictionary json.dump writes (lines 52-57)
Document(p, st, et, ms) ==
  [kind |-> "doc", pid |-> p, start_time |-> st, end_time |-> et, metrics |-> ms]

\* a value that was read, as opposed to None_
Val == <<"v">>

\* the dictionary collect_metrics returns (lines 24-33); f is the cpu_freq entry
Sample(t, f) ==
  [timestamp |-> IsoFormat(t), cpu_percent |-> Val, memory_rss |-> Val,
   memory_vms |-> Val, io_read_bytes |-> Val, io_write_bytes |-> Val,
   num_threads |-> Val, cpu_freq |-> f]

\* the instances of SpecPair and the identifiers their targets may have
Samplers == {"a", "b"}
PairPids == 1..(MaxPid + 1)
FileNames == PairPids \X Tokens

\* an instance that is not constructed yet
NoSampler ==
  [inst |-> "none", pid |-> 0, start_time |-> None_, pc |-> "start",
   metrics |-> <<>>, output_file |-> <<0, NoToken>>, collected |-> <<>>,
   ticks |-> 0, ctorSec |-> NoToken, callSec |-> NoToken]

\* ------------------------------------------------------------------- Init
Init ==
  /\ caller \in {"main", "lib"}
  /\ now = 0
  /\ alive \in BOOLEAN
  /\ access \in BOOLEAN
  /\ inst = "none"
  /\ pid \in 1..MaxPid
  /\ start_time = None_
  /\ pc = "start"
  /\ metrics = <<>>
  /\ output_file = NoToken
  /\ pending = "none"
  /\ fs = [k \in Tokens |-> NoFile]
  /\ outcome = "none"
  /\ printed = NoToken
  /\ writeFault = "none"
  /\ sessions = 0
  /\ writes = 0
  /\ written = FALSE
  /\ ticks = 0
  /\ collected = <<>>
  /\ goneSignal = FALSE
  /\ loopExit = "none"
  /\ ctorView = <<FALSE, FALSE>>
  /\ freq \in {"value", "none", "raises"}
  /\ exitCode = -1
  /\ goodTicks = 0
  /\ lastStep = "none"
  /\ samplers = [s \in Samplers |-> NoSampler]
  /\ palive = [p \in PairPids |-> TRUE]
  /\ dir = [f \in FileNames |-> NoFile]

\* ------------------------------------------------------------ environment
ClockAdvance ==
  /\ now < MaxTime
  /\ now' = now + 1
  /\ UNCHANGED <<caller, alive, access, inst, pid, start_time, pc, metrics,
                 output_file, pending, fs, outcome, printed, writeFault>>
  /\ UNCHANGED histVars
  /\ UNCHANGED auxVars
  /\ UNCHANGED exitCode
  /\ UNCHANGED stepVars

ProcessExit ==
  /\ alive
  /\ alive' = FALSE
  /\ UNCHANGED <<caller, now, access, inst, pid, start_time, pc, metrics,
                 output_file, pending, fs, outcome, printed, writeFault>>
  /\ UNCHANGED histVars
  /\ UNCHANGED auxVars
  /\ UNCHANGED exitCode
  /\ UNCHANGED stepVars

AccessRevoked ==
  /\ alive /\ access
  /\ access' = FALSE
  /\ UNCHANGED <<caller, now, alive, inst, pid, start_time, pc, metrics,
                 output_file, pending, fs, outcome, printed, writeFault>>
  /\ UNCHANGED histVars
  /\ UNCHANGED auxVars
  /\ UNCHANGED exitCode
  /\ UNCHANGED stepVars

\* ----------------------------------------------------------- construction
\* psutil.Process(pid) (line 15) raises NoSuchProcess when no process has
\* this identifier; it does not look at the permissions on the counters.
AttachRaises == ~alive

\* SystemMonitor.__init__, lines 11-16
Construct ==
  /\ pc = "start"
  /\ ctorView' = <<alive, access>>
  /\ IF AttachRaises
       THEN /\ inst' = "failed"
            /\ pc' = "attach_failed"
            /\ start_time' = start_time
            /\ exitCode' = IF caller = "main" THEN 1 ELSE exitCode
       ELSE /\ inst' = "ok"
            /\ pc' = "idle"
            /\ start_time' = IsoFormat(now)
            /\ exitCode' = exitCode
  /\ UNCHANGED <<caller, pid, metrics, output_file, pending, fs, outcome,
                 printed, writeFault>>
  /\ UNCHANGED envVars
  /\ UNCHANGED <<sessions, writes, written, ticks, collected, goneSignal, loopExit>>
  /\ UNCHANGED auxVars
  /\ UNCHANGED stepVars

\* --------------------------------------------------------------- monitor
\* monitor(), lines 38-39: the file name and the empty list.  main() calls it
\* once (line 72); a program using the class may call it again.
MonitorCall ==
  /\ inst = "ok"
  /\ \/ pc = "idle"
     \/ pc = "done" /\ caller = "lib"
  /\ sessions < MaxCalls
  /\ output_file' = Second(now)
  /\ metrics' = <<>>
  /\ pending' = "none"
  /\ outcome' = "none"
  /\ writeFault' = "none"
  /\ pc' = "check"
  /\ sessions' = sessions + 1
  /\ written' = FALSE
  /\ ticks' = 0
  /\ collected' = <<>>
  /\ goneSignal' = FALSE
  /\ loopExit' = "none"
  /\ goodTicks' = 0
  /\ lastStep' = "call"
  /\ UNCHANGED <<caller, inst, pid, start_time, fs, printed, writes, ctorView>>
  /\ UNCHANGED envVars
  /\ UNCHANGED auxVars
  /\ UNCHANGED exitCode

\* variant of IsRunning: "while True:", the liveness of the target is not
\* looked at
IsRunning_Always ==
  /\ pc = "check"
  /\ ticks < MaxTicks
  /\ pc' = "tick"
  /\ lastStep' = "alive"
  /\ UNCHANGED <<caller, inst, pid, start_time, metrics, output_file, pending,
                 fs, outcome, printed, writeFault>>
  /\ UNCHANGED envVars
  /\ UNCHANGED histVars
  /\ UNCHANGED auxVars
  /\ UNCHANGED <<exitCode, goodTicks>>

\* the while condition, line 42: self.process.is_running() is False for a
\* process that is gone; the except clause of line 47 covers the library
\* raising NoSuchProcess instead.
IsRunning ==
  /\ pc = "check"
  /\ alive => ticks < MaxTicks
  /\ IF alive
       THEN /\ pc' = "tick"
            /\ loopExit' = loopExit
            /\ lastStep' = "alive"
       ELSE /\ pc' = "finally"
            /\ loopExit' \in {"ended", "nsp"}
            /\ lastStep' = "ended"
  /\ goodTicks' = goodTicks
  /\ UNCHANGED <<caller, inst, pid, start_time, metrics, output_file, pending,
                 fs, outcome, printed, writeFault>>
  /\ UNCHANGED envVars
  /\ UNCHANGED <<sessions, writes, written, ticks, collected, goneSignal, ctorView>>
  /\ UNCHANGED auxVars
  /\ UNCHANGED exitCode

\* variant of AppendMetric: metrics = [metric], the list is replaced
AppendMetric_Replace(ms, m) == <<m>>

\* variant of AppendMetric: metrics.insert(0, metric), newest first
AppendMetric_Prepend(ms, m) == <<m>> \o ms

\* variant of AppendMetric: metrics[-1] = metric, the last sample overwritten
AppendMetric_Overwrite(ms, m) ==
  IF ms = <<>> THEN <<m>> ELSE [ms EXCEPT ![Len(ms)] = m]

\* metrics.append(metric), line 45
AppendMetric(ms, m) == Append(ms, m)

\* the process is gone (NoSuchProcess) or refuses access (AccessDenied) by
\* the time of one of the reads of this tick
ProcessGone == ~alive \/ ~access

\* the reads of collect_metrics() that raise for a gone process, in program
\* order (lines 20, 21, 22, 31)
Reads == <<"cpu_percent", "memory_info", "io_counters", "num_threads">>
NumReads == Len(Reads)

\* index of the first read of a tick that raises; NumReads + 1 when none does
FailPoints == IF ProcessGone THEN 1..NumReads ELSE {NumReads + 1}

\* line 32: psutil.cpu_freq() returned an object with .current, or None
CpuFreq == IF freq = "value" THEN Val ELSE None_

\* variant of CollectMetrics: every read in its own try, the fields read
\* before the failure are kept and the others are None
CollectMetrics_Partial(failAt, t, f) ==
  [timestamp |-> IsoFormat(t),
   cpu_percent |-> IF failAt > 1 THEN Val ELSE None_,
   memory_rss |-> IF failAt > 2 THEN Val ELSE None_,
   memory_vms |-> IF failAt > 2 THEN Val ELSE None_,
   io_read_bytes |-> IF failAt > 3 THEN Val ELSE None_,
   io_write_bytes |-> IF failAt > 3 THEN Val ELSE None_,
   num_threads |-> IF failAt > 4 THEN Val ELSE None_,
   cpu_freq |-> f]

\* collect_metrics(), lines 18-35, when no exception leaves it: None as soon
\* as one read raised NoSuchProcess or AccessDenied, the whole dictionary
\* otherwise
CollectMetrics(failAt, t, f) ==
  IF failAt <= NumReads THEN None_ ELSE Sample(t, f)

\* lines 43-45: one collection and the append of a non-None result.  When
\* every read succeeded and psutil.cpu_freq() raises (line 32), the exception
\* is none of line 34 and leaves collect_metrics(), as in TickError.
Tick ==
  /\ pc = "tick"
  /\ ticks < MaxTicks
  /\ ticks' = ticks + 1
  /\ lastStep' = "collect"
  /\ \E failAt \in FailPoints :
       LET metric == CollectMetrics(failAt, now, CpuFreq) IN
         /\ goodTicks' = IF failAt > NumReads THEN goodTicks + 1 ELSE goodTicks
         /\ IF failAt > NumReads /\ freq = "raises"
              THEN /\ pending' = "error"
                   /\ loopExit' = "error"
                   /\ pc' = "finally"
                   /\ UNCHANGED <<metrics, collected, goneSignal>>
              ELSE /\ IF metric = None_
                        THEN /\ goneSignal' = TRUE
                             /\ UNCHANGED <<metrics, collected>>
                        ELSE /\ metrics' = AppendMetric(metrics, metric)
                             /\ collected' = Append(collected, metric)
                             /\ goneSignal' = goneSignal
                   /\ pc' = "sleep"
                   /\ UNCHANGED <<pending, loopExit>>
  /\ UNCHANGED <<caller, inst, pid, start_time, output_file, fs,
                 outcome, printed, writeFault>>
  /\ UNCHANGED envVars
  /\ UNCHANGED <<sessions, writes, written, ctorView>>
  /\ UNCHANGED auxVars
  /\ UNCHANGED exitCode

\* line 43, an exception other than NoSuchProcess and AccessDenied leaves
\* collect_metrics(); the except clause of line 47 does not match it.
TickError ==
  /\ pc = "tick"
  /\ ticks < MaxTicks
  /\ ticks' = ticks + 1
  /\ pending' = "error"
  /\ loopExit' = "error"
  /\ pc' = "finally"
  /\ lastStep' = "collect"
  /\ goodTicks' = goodTicks
  /\ UNCHANGED <<caller, inst, pid, start_time, metrics, output_file, fs,
                 outcome, printed, writeFault>>
  /\ UNCHANGED envVars
  /\ UNCHANGED <<sessions, writes, written, collected, goneSignal, ctorView>>
  /\ UNCHANGED auxVars
  /\ UNCHANGED exitCode

\* variant of Sleep: the loop goes back to the collection without the
\* liveness check
Sleep_NoRecheck ==
  /\ pc = "sleep"
  /\ pc' = "tick"
  /\ lastStep' = "sleep"
  /\ goodTicks' = goodTicks
  /\ UNCHANGED <<caller, inst, pid, start_time, metrics, output_file, pending,
                 fs, outcome, printed, writeFault>>
  /\ UNCHANGED envVars
  /\ UNCHANGED histVars
  /\ UNCHANGED auxVars
  /\ UNCHANGED exitCode

\* time.sleep(interval), line 46
Sleep ==
  /\ pc = "sleep"
  /\ pc' = "check"
  /\ lastStep' = "sleep"
  /\ goodTicks' = goodTicks
  /\ UNCHANGED <<caller, inst, pid, start_time, metrics, output_file, pending,
                 fs, outcome, printed, writeFault>>
  /\ UNCHANGED envVars
  /\ UNCHANGED histVars
  /\ UNCHANGED auxVars
  /\ UNCHANGED exitCode

\* variant of LoopInterrupt: a try without the finally clause, the
\* interrupt leaves monitor() at once
LoopInterrupt_NoFinally ==
  /\ pc \in {"check", "tick", "sleep"}
  /\ pending' = "interrupt"
  /\ loopExit' = "interrupt"
  /\ outcome' = "interrupted"
  /\ pc' = "done"
  /\ UNCHANGED <<caller, inst, pid, start_time, metrics, output_file, fs,
                 printed, writeFault>>
  /\ UNCHANGED envVars
  /\ UNCHANGED <<sessions, writes, written, ticks, collected, goneSignal, ctorView>>
  /\ UNCHANGED auxVars
  /\ UNCHANGED exitCode
  /\ UNCHANGED stepVars

\* KeyboardInterrupt raised in the loop, lines 42-46: not matched by line 47,
\* control goes to the finally block with the exception in flight.
LoopInterrupt ==
  /\ pc \in {"check", "tick", "sleep"}
  /\ pending' = "interrupt"
  /\ loopExit' = "interrupt"
  /\ pc' = "finally"
  /\ UNCHANGED <<caller, inst, pid, start_time, metrics, output_file, fs,
                 outcome, printed, writeFault>>
  /\ UNCHANGED envVars
  /\ UNCHANGED <<sessions, writes, written, ticks, collected, goneSignal, ctorView>>
  /\ UNCHANGED auxVars
  /\ UNCHANGED exitCode
  /\ UNCHANGED stepVars

\* ---------------------------------------------------- the finally block
\* output_file.open('w'), line 51: the file is created, or truncated if it
\* exists already
FinallyOpen ==
  /\ pc = "finally"
  /\ fs' = [fs EXCEPT ![output_file] = PartialFile]
  /\ pc' = "dump"
  /\ UNCHANGED <<caller, inst, pid, start_time, metrics, output_file, pending,
                 outcome, printed, writeFault>>
  /\ UNCHANGED envVars
  /\ UNCHANGED histVars
  /\ UNCHANGED auxVars
  /\ UNCHANGED exitCode
  /\ UNCHANGED stepVars

\* line 51 raises OSError (no permission, no such directory, disk full): the
\* exception leaves the finally block, line 59 is not reached
OpenFail ==
  /\ pc = "finally"
  /\ writeFault' = "open_failed"
  /\ outcome' = "write_error"
  /\ pc' = "done"
  /\ UNCHANGED <<caller, inst, pid, start_time, metrics, output_file, pending,
                 fs, printed>>
  /\ UNCHANGED envVars
  /\ UNCHANGED histVars
  /\ UNCHANGED auxVars
  /\ UNCHANGED exitCode
  /\ UNCHANGED stepVars

\* variant of EndTime: self.start_time written for end_time
EndTime_Start == start_time

\* datetime.now().isoformat() of line 55
EndTime == IsoFormat(now)

\* variant of FinallyDump: the dump guarded by "if metrics:"
FinallyDump_IfMetrics ==
  /\ pc = "dump"
  /\ IF metrics # <<>>
       THEN /\ fs' = [fs EXCEPT ![output_file] = Document(pid, start_time, EndTime, metrics)]
            /\ writes' = writes + 1
            /\ written' = TRUE
       ELSE UNCHANGED <<fs, writes, written>>
  /\ pc' = "ret"
  /\ UNCHANGED <<caller, inst, pid, start_time, metrics, output_file, pending,
                 outcome, printed, writeFault>>
  /\ UNCHANGED envVars
  /\ UNCHANGED <<sessions, ticks, collected, goneSignal, loopExit, ctorView>>
  /\ UNCHANGED auxVars
  /\ UNCHANGED exitCode
  /\ UNCHANGED stepVars

\* json.dump and the close of the with statement, lines 52-57
FinallyDump ==
  /\ pc = "dump"
  /\ fs' = [fs EXCEPT ![output_file] = Document(pid, start_time, EndTime, metrics)]
  /\ writes' = writes + 1
  /\ written' = TRUE
  /\ pc' = "ret"
  /\ UNCHANGED <<caller, inst, pid, start_time, metrics, output_file, pending,
                 outcome, printed, writeFault>>
  /\ UNCHANGED envVars
  /\ UNCHANGED <<sessions, ticks, collected, goneSignal, loopExit, ctorView>>
  /\ UNCHANGED auxVars
  /\ UNCHANGED exitCode
  /\ UNCHANGED stepVars

\* variant of DumpFail: the write error caught and passed over, line 59 is
\* reached
DumpFail_Swallowed ==
  /\ pc = "dump"
  /\ writeFault' = "dump_failed"
  /\ pc' = "ret"
  /\ UNCHANGED <<caller, inst, pid, start_time, metrics, output_file, pending,
                 fs, outcome, printed>>
  /\ UNCHANGED envVars
  /\ UNCHANGED histVars
  /\ UNCHANGED auxVars
  /\ UNCHANGED exitCode
  /\ UNCHANGED stepVars

\* lines 52-57 raise while writing: the file stays as far as it was written
DumpFail ==
  /\ pc = "dump"
  /\ writeFault' = "dump_failed"
  /\ outcome' = "write_error"
  /\ pc' = "done"
  /\ UNCHANGED <<caller, inst, pid, start_time, metrics, output_file, pending,
                 fs, printed>>
  /\ UNCHANGED envVars
  /\ UNCHANGED histVars
  /\ UNCHANGED auxVars
  /\ UNCHANGED exitCode
  /\ UNCHANGED stepVars

\* variant of FinallyReturn: the return placed after the try statement, an
\* exception in flight is raised again at the end of the finally block
FinallyReturn_Reraise ==
  /\ pc = "ret"
  /\ pending' = pending
  /\ outcome' = IF pending = "none" THEN "returned" ELSE "interrupted"
  /\ pc' = "done"
  /\ UNCHANGED <<caller, inst, pid, start_time, metrics, output_file, fs,
                 printed, writeFault>>
  /\ UNCHANGED envVars
  /\ UNCHANGED histVars
  /\ UNCHANGED auxVars
  /\ UNCHANGED exitCode
  /\ UNCHANGED stepVars

\* return output_file, line 59: a return inside finally discards the
\* exception in flight
FinallyReturn ==
  /\ pc = "ret"
  /\ pending' = "none"
  /\ outcome' = "returned"
  /\ pc' = "done"
  /\ UNCHANGED <<caller, inst, pid, start_time, metrics, output_file, fs,
                 printed, writeFault>>
  /\ UNCHANGED envVars
  /\ UNCHANGED histVars
  /\ UNCHANGED auxVars
  /\ UNCHANGED exitCode
  /\ UNCHANGED stepVars

\* KeyboardInterrupt raised inside the finally block, lines 51-59: it leaves
\* monitor(), whatever was in flight before
FinallyInterrupt ==
  /\ pc \in {"finally", "dump", "ret"}
  /\ writeFault' = "interrupted"
  /\ outcome' = "interrupted"
  /\ pending' = "interrupt"
  /\ pc' = "done"
  /\ UNCHANGED <<caller, inst, pid, start_time, metrics, output_file, fs,
                 printed>>
  /\ UNCHANGED envVars
  /\ UNCHANGED histVars
  /\ UNCHANGED auxVars
  /\ UNCHANGED exitCode
  /\ UNCHANGED stepVars

\* ------------------------------------------------------------------ main
\* variant of MainPrint: main() ends without the print of line 73
MainPrint_NoPath ==
  /\ caller = "main"
  /\ pc = "done"
  /\ outcome = "returned"
  /\ exitCode' = 0
  /\ pc' = "exit"
  /\ UNCHANGED <<caller, inst, pid, start_time, metrics, output_file, pending,
                 fs, outcome, printed, writeFault>>
  /\ UNCHANGED envVars
  /\ UNCHANGED histVars
  /\ UNCHANGED auxVars
  /\ UNCHANGED stepVars

\* line 73: reached when monitor() of line 72 returned
MainPrint ==
  /\ caller = "main"
  /\ pc = "done"
  /\ outcome = "returned"
  /\ printed' = output_file
  /\ exitCode' = 0
  /\ pc' = "exit"
  /\ UNCHANGED <<caller, inst, pid, start_time, metrics, output_file, pending,
                 fs, outcome, writeFault>>
  /\ UNCHANGED envVars
  /\ UNCHANGED histVars
  /\ UNCHANGED auxVars
  /\ UNCHANGED stepVars

\* line 72 raised: main() has no handler, the interpreter ends with a traceback
MainAbort ==
  /\ caller = "main"
  /\ pc = "done"
  /\ outcome # "returned"
  /\ exitCode' = IF outcome = "interrupted" THEN 130 ELSE 1
  /\ pc' = "exit"
  /\ UNCHANGED <<caller, inst, pid, start_time, metrics, output_file, pending,
                 fs, outcome, printed, writeFault>>
  /\ UNCHANGED envVars
  /\ UNCHANGED histVars
  /\ UNCHANGED auxVars
  /\ UNCHANGED stepVars

Next ==
  \/ ClockAdvance
  \/ ProcessExit
  \/ AccessRevoked
  \/ Construct
  \/ MonitorCall
  \/ IsRunning
  \/ Tick
  \/ TickError
  \/ Sleep
  \/ LoopInterrupt
  \/ FinallyOpen
  \/ OpenFail
  \/ FinallyDump
  \/ DumpFail
  \/ FinallyReturn
  \/ FinallyInterrupt
  \/ MainPrint
  \/ MainAbort

Spec == Init /\ [][Next]_vars

\* every step of the loop and of the finally block that is enabled is taken
\* in the end: the calls of lines 42-46 and 51-59 return
Fairness ==
  /\ WF_vars(IsRunning)
  /\ WF_vars(Tick)
  /\ WF_vars(Sleep)
  /\ WF_vars(FinallyOpen)
  /\ WF_vars(FinallyDump)
  /\ WF_vars(FinallyReturn)

\* the command line: one instance, one monitor() call
InitLive == Init /\ caller = "main"

SpecLive == InitLive /\ [][Next]_vars /\ Fairness

TypeOK ==
  /\ caller \in {"main", "lib"}
  /\ now \in 0..MaxTime
  /\ alive \in BOOLEAN /\ access \in BOOLEAN
  /\ inst \in {"none", "ok", "failed"}
  /\ pc \in {"start", "attach_failed", "idle", "check", "tick", "sleep",
             "finally", "dump", "ret", "done", "exit"}
  /\ pending \in {"none", "error", "interrupt"}
  /\ outcome \in {"none", "returned", "write_error", "interrupted"}
  /\ writeFault \in {"none", "open_failed", "dump_failed", "interrupted"}
  /\ output_file \in Tokens \cup {NoToken}
  /\ printed \in Tokens \cup {NoToken}
  /\ ticks \in 0..MaxTicks
  /\ sessions \in 0..MaxCalls
  /\ freq \in {"value", "none", "raises"}
  /\ exitCode \in {-1, 0, 1, 130}
  /\ goodTicks \in 0..MaxTicks
  /\ lastStep \in {"none", "call", "alive", "ended", "collect", "sleep"}

\* ------------------------------------------------ two instances side by side
\* Two SystemMonitor instances run in one output directory, each in its own
\* thread or process, on the same clock.  Each follows lines 11-59 as above;
\* the interrupt and write-failure paths are those of Spec and are left out
\* here.
soloVars == <<caller, alive, access, inst, pid, start_time, pc, metrics,
              output_file, pending, fs, outcome, printed, writeFault, sessions,
              writes, written, ticks, collected, goneSignal, loopExit, ctorView,
              freq, exitCode, goodTicks, lastStep>>

\* most collection ticks of one instance in SpecPair
MaxPairTicks == MaxTicks - 1

\* variant of FileName: monitor_{pid}.json, no time token
FileName_PidOnly(p, t) == <<p, 0>>

\* line 38: monitor_{pid}_{int(time.time())}.json in the output directory
FileName(p, t) == <<p, Second(t)>>

PairProcessExit(p) ==
  /\ palive[p]
  /\ palive' = [palive EXCEPT ![p] = FALSE]
  /\ UNCHANGED <<now, samplers, dir>>
  /\ UNCHANGED soloVars

\* SystemMonitor.__init__, lines 11-16
PairConstruct(s) ==
  /\ samplers[s].pc = "start"
  /\ s = "b" => samplers["a"].pc # "start"    \* "a" names the instance constructed first
  /\ \E p \in PairPids :
       samplers' = [samplers EXCEPT ![s] =
          IF ~palive[p]
            THEN [@ EXCEPT !.inst = "failed", !.pc = "attach_failed"]
            ELSE [@ EXCEPT !.inst = "ok", !.pid = p, !.pc = "idle",
                           !.start_time = IsoFormat(now),
                           !.ctorSec = Second(now)]]
  /\ UNCHANGED <<now, palive, dir>>
  /\ UNCHANGED soloVars

\* monitor(), lines 38-39
PairMonitorCall(s) ==
  /\ samplers[s].pc = "idle"
  /\ samplers' = [samplers EXCEPT ![s] =
        [@ EXCEPT !.output_file = FileName(samplers[s].pid, now), !.metrics = <<>>,
                  !.callSec = Second(now), !.pc = "check"]]
  /\ UNCHANGED <<now, palive, dir>>
  /\ UNCHANGED soloVars

\* the while condition, line 42
PairIsRunning(s) ==
  /\ samplers[s].pc = "check"
  /\ palive[samplers[s].pid] => samplers[s].ticks < MaxPairTicks
  /\ samplers' = [samplers EXCEPT ![s].pc =
        IF palive[samplers[s].pid] THEN "tick" ELSE "finally"]
  /\ UNCHANGED <<now, palive, dir>>
  /\ UNCHANGED soloVars

\* variant of PairTick: metrics is one list shared by the instances (a class
\* attribute), the sample lands in the list of every running session
PairTick_Shared(s) ==
  /\ samplers[s].pc = "tick"
  /\ samplers' = [t \in Samplers |->
        IF t = s
          THEN IF palive[samplers[s].pid]
                 THEN [samplers[s] EXCEPT
                         !.metrics = AppendMetric(@, Sample(now, Val)),
                         !.collected = Append(@, Sample(now, Val)),
                         !.ticks = @ + 1, !.pc = "sleep"]
                 ELSE [samplers[s] EXCEPT !.ticks = @ + 1, !.pc = "sleep"]
          ELSE IF palive[samplers[s].pid] /\ samplers[t].pc \in {"check", "tick", "sleep"}
                 THEN [samplers[t] EXCEPT !.metrics = AppendMetric(@, Sample(now, Val))]
                 ELSE samplers[t]]
  /\ UNCHANGED <<now, palive, dir>>
  /\ UNCHANGED soloVars

\* lines 43-45
PairTick(s) ==
  /\ samplers[s].pc = "tick"
  /\ samplers' = [samplers EXCEPT ![s] =
        IF palive[samplers[s].pid]
          THEN [@ EXCEPT !.metrics = AppendMetric(@, Sample(now, Val)),
                         !.collected = Append(@, Sample(now, Val)),
                         !.ticks = @ + 1, !.pc = "sleep"]
          ELSE [@ EXCEPT !.ticks = @ + 1, !.pc = "sleep"]]
  /\ UNCHANGED <<now, palive, dir>>
  /\ UNCHANGED soloVars

\* line 46
PairSleep(s) ==
  /\ samplers[s].pc = "sleep"
  /\ samplers' = [samplers EXCEPT ![s].pc = "check"]
  /\ UNCHANGED <<now, palive, dir>>
  /\ UNCHANGED soloVars

\* line 51
PairFinallyOpen(s) ==
  /\ samplers[s].pc = "finally"
  /\ dir' = [dir EXCEPT ![samplers[s].output_file] = PartialFile]
  /\ samplers' = [samplers EXCEPT ![s].pc = "dump"]
  /\ UNCHANGED <<now, palive>>
  /\ UNCHANGED soloVars

\* lines 52-57
PairFinallyDump(s) ==
  /\ samplers[s].pc = "dump"
  /\ dir' = [dir EXCEPT ![samplers[s].output_file] =
        Document(samplers[s].pid, samplers[s].start_time, IsoFormat(now),
                 samplers[s].metrics)]
  /\ samplers' = [samplers EXCEPT ![s].pc = "ret"]
  /\ UNCHANGED <<now, palive>>
  /\ UNCHANGED soloVars

\* line 59
PairFinallyReturn(s) ==
  /\ samplers[s].pc = "ret"
  /\ samplers' = [samplers EXCEPT ![s].pc = "done"]
  /\ UNCHANGED <<now, palive, dir>>
  /\ UNCHANGED soloVars

InitPair == Init /\ caller = "lib" /\ alive /\ access /\ freq = "value"

NextPair ==
  \/ ClockAdvance
  \/ \E p \in PairPids : PairProcessExit(p)
  \/ \E s \in Samplers : PairConstruct(s)
  \/ \E s \in Samplers : PairMonitorCall(s)
  \/ \E s \in Samplers : PairIsRunning(s)
  \/ \E s \in Samplers : PairTick(s)
  \/ \E s \in Samplers : PairSleep(s)
  \/ \E s \in Samplers : PairFinallyOpen(s)
  \/ \E s \in Samplers : PairFinallyDump(s)
  \/ \E s \in Samplers : PairFinallyReturn(s)

SpecPair == InitPair /\ [][NextPair]_vars

\* ================================================================ claims
Finished == pc \in {"done", "exit"}

\* the artifact of the current monitor() call
Artifact == fs[output_file]

\* the artifact is the complete document of the current call: end timestamp
\* set, every sample collected so far, in collection order
ArtifactComplete ==
  /\ written
  /\ Artifact.kind = "doc"
  /\ Artifact.pid = pid
  /\ Artifact.start_time = start_time
  /\ Artifact.end_time # None_
  /\ Artifact.metrics = collected

\* C1 (as stated): whenever monitor() has finished, by whatever exit path of
\* the loop, the end timestamp is set and the artifact with all samples
\* accumulated so far has been written.
C1_FinalizationUnconditional == Finished => ArtifactComplete

\* C1 (amended): whenever monitor() has finished and nothing went wrong
\* inside the final write itself (open and dump did not fail, no interrupt
\* arrived inside the finally block), the end timestamp is set and the
\* artifact with all samples accumulated so far has been written, whichever
\* way the loop was left.
C1_FinalizationUnlessWriteFails ==
  (Finished /\ writeFault = "none") => ArtifactComplete

C1_Witness ==
  /\ Finished
  /\ writeFault = "none"
  /\ loopExit = "interrupt"
  /\ collected # <<>>
  /\ ArtifactComplete

\* C2: when the loop was interrupted after N samples and monitor() yields its
\* artifact, the metrics of the artifact are exactly those N samples in
\* collection order.
C2_InterruptKeepsSamples ==
  (Finished /\ loopExit = "interrupt" /\ outcome = "returned") =>
     /\ Artifact.kind = "doc"
     /\ Artifact.metrics = collected

C2_Witness ==
  /\ Finished
  /\ loopExit = "interrupt"
  /\ outcome = "returned"
  /\ Len(collected) = 2
  /\ Artifact.metrics = collected

\* C3 (as stated): once a tick of the session has returned the process-gone
\* signal, no further collection tick is performed in that session.
C3_GoneSignalStopsLoop ==
  [][(goneSignal /\ sessions' = sessions) => ticks' = ticks]_vars

\* C4 (as stated): when the loop was left by an unexpected error of a tick,
\* monitor() does not return normally.
C4_UnexpectedPropagates ==
  (Finished /\ loopExit = "error") => outcome # "returned"

\* C5: when the final write failed (open or dump raised), monitor() does not
\* return a path and main() prints no saved-path message.
C5_WriteFailureSurfaced ==
  (Finished /\ writeFault \in {"open_failed", "dump_failed"}) =>
     /\ outcome = "write_error"
     /\ printed = NoToken

C5_Witness ==
  /\ pc = "exit"
  /\ caller = "main"
  /\ writeFault = "dump_failed"
  /\ outcome = "write_error"

\* C6 (as stated): an instance runs at most one session and writes at most
\* one artifact.
C6_FinalizedOnce == sessions <= 1 /\ writes <= 1

\* C7: when the target was gone before the first tick and monitor() returns,
\* the artifact is written with an empty metrics sequence and with start_time
\* and end_time both set.
C7_EmptySession ==
  (Finished /\ outcome = "returned" /\ ticks = 0 /\ loopExit \in {"ended", "nsp"}) =>
     /\ Artifact.kind = "doc"
     /\ Artifact.metrics = <<>>
     /\ Artifact.start_time # None_
     /\ Artifact.end_time # None_

C7_Witness ==
  /\ Finished
  /\ outcome = "returned"
  /\ ticks = 0
  /\ loopExit = "ended"
  /\ Artifact.kind = "doc"
  /\ Artifact.metrics = <<>>

\* C8 (as stated): when the identifier did not resolve to a running,
\* accessible process as the constructor ran, construction failed and no
\* artifact file exists.
C8_AttachFails ==
  (pc # "start" /\ ~(ctorView[1] /\ ctorView[2])) =>
     /\ inst = "failed"
     /\ \A k \in Tokens : fs[k].kind = "none"

\* C9: in every written artifact end_time >= start_time, and end_time >= the
\* timestamp of the last sample when there is one.
C9_EndTimeLast ==
  \A k \in Tokens :
    fs[k].kind = "doc" =>
      /\ IsoLeq(fs[k].start_time, fs[k].end_time)
      /\ fs[k].metrics # <<>> =>
           IsoLeq(fs[k].metrics[Len(fs[k].metrics)].timestamp, fs[k].end_time)

C9_Witness ==
  \E k \in Tokens :
    /\ fs[k].kind = "doc"
    /\ fs[k].metrics # <<>>
    /\ fs[k].metrics[Len(fs[k].metrics)].timestamp # fs[k].start_time
    /\ fs[k].end_time # fs[k].metrics[Len(fs[k].metrics)].timestamp

Sorted(ms) ==
  \A i \in 1..(Len(ms) - 1) : IsoLeq(ms[i].timestamp, ms[i + 1].timestamp)

\* C10: the metrics sequence is non-decreasing in timestamp at every point of
\* the loop and in every written artifact.
C10_MetricsSorted ==
  /\ Sorted(metrics)
  /\ \A k \in Tokens : fs[k].kind = "doc" => Sorted(fs[k].metrics)

C10_Witness ==
  \E k \in Tokens :
    /\ fs[k].kind = "doc"
    /\ Len(fs[k].metrics) = 2
    /\ fs[k].metrics[1].timestamp # fs[k].metrics[2].timestamp

\* C12 (as stated): no file of the output directory is a partial, unfinalized
\* document (outside the moment the dump itself is running).
C12_NoPartialArtifact ==
  pc # "dump" => \A k \in Tokens : fs[k].kind # "partial"

\* C14: when the session of the command line completed normally (the loop
\* ended because the target ended, the write went through), main() has exit
\* code 0 and printed the path of the artifact; a printed path is always the
\* path of an artifact that was written.
C14_ExitZeroAndPath ==
  /\ (pc = "exit" /\ loopExit \in {"ended", "nsp"} /\ writeFault = "none") =>
        (exitCode = 0 /\ printed = output_file)
  /\ printed # NoToken => (written /\ fs[printed].kind = "doc")

C14_Witness ==
  /\ pc = "exit"
  /\ loopExit = "ended"
  /\ collected # <<>>
  /\ exitCode = 0
  /\ printed = output_file

Mandatory(m) ==
  /\ m.timestamp # None_
  /\ m.cpu_percent # None_
  /\ m.memory_rss # None_
  /\ m.memory_vms # None_
  /\ m.io_read_bytes # None_
  /\ m.io_write_bytes # None_
  /\ m.num_threads # None_

AllMandatory(ms) == \A i \in 1..Len(ms) : Mandatory(ms[i])

\* C15: every sample of the session and of every artifact has all its
\* mandatory fields set, and only the ticks whose mandatory reads all
\* succeeded contributed a sample.
C15_SampleAllOrNothing ==
  /\ AllMandatory(metrics)
  /\ \A k \in Tokens : fs[k].kind = "doc" => AllMandatory(fs[k].metrics)
  /\ Len(metrics) <= goodTicks

C15_Witness ==
  /\ ticks = 2
  /\ goodTicks = 1
  /\ Len(metrics) = 1
  /\ written
  /\ Artifact.metrics = metrics

\* C16 (as stated): on a host whose CPU frequency cannot be read, every tick
\* whose mandatory reads succeeded appended a sample, with cpu_freq null and
\* the other fields set.
C16_FreqOptional ==
  freq # "value" =>
     /\ Len(collected) = goodTicks
     /\ \A i \in 1..Len(metrics) : metrics[i].cpu_freq = None_ /\ Mandatory(metrics[i])

InSession == pc \in {"check", "tick", "sleep", "finally", "dump", "ret"}

\* C17: once the target has ended, a running monitor() call reaches the end
\* (and then has its artifact written, unless the write itself went wrong).
C17_Terminates ==
  (InSession /\ ~alive) ~> (Finished /\ (writeFault = "none" => ArtifactComplete))

C17_Witness ==
  /\ Finished
  /\ ~alive
  /\ loopExit = "ended"
  /\ ticks = 2
  /\ ArtifactComplete

\* C18: a collection comes right after a liveness check that reported the
\* target running, the sleep right after a collection, a liveness check right
\* after the call or a sleep, and no collection follows a liveness check that
\* reported the target ended.
C18_TickOrder ==
  [][ /\ (ticks' = ticks + 1) => (lastStep = "alive" /\ lastStep' = "collect")
      /\ (lastStep' = "sleep" /\ lastStep # "sleep") => lastStep = "collect"
      /\ (lastStep' \in {"alive", "ended"} /\ lastStep' # lastStep) =>
            lastStep \in {"call", "sleep"}
      /\ (lastStep = "ended" /\ sessions' = sessions) => ticks' = ticks ]_vars

C18_Witness ==
  /\ ticks = 2
  /\ lastStep = "ended"

\* C19: within a session every step leaves the metrics sequence as it is or
\* adds one sample at its end, and pid and start_time never change once the
\* instance is constructed.
C19_AppendOnly ==
  [][ /\ sessions' = sessions =>
            \/ metrics' = metrics
            \/ /\ Len(metrics') = Len(metrics) + 1
               /\ SubSeq(metrics', 1, Len(metrics)) = metrics
      /\ inst = "ok" => (pid' = pid /\ start_time' = start_time) ]_vars

C19_Witness ==
  /\ Len(metrics) = 2
  /\ metrics[1] # metrics[2]

\* C20: when nothing went wrong inside the final write, monitor() returned
\* its path with no exception left, however the loop was left; the command
\* line then ends as after a normal session.
C20_ExceptionDiscarded ==
  /\ (Finished /\ writeFault = "none") => (outcome = "returned" /\ pending = "none")
  /\ (pc = "exit" /\ writeFault = "none") => (exitCode = 0 /\ printed = output_file)

C20_Witness ==
  /\ pc = "exit"
  /\ loopExit = "interrupt"
  /\ outcome = "returned"
  /\ exitCode = 0

Called(s) == samplers[s].callSec # NoToken

OwnArtifact(s) ==
  /\ dir[samplers[s].output_file].kind = "doc"
  /\ dir[samplers[s].output_file].pid = samplers[s].pid
  /\ dir[samplers[s].output_file].start_time = samplers[s].start_time
  /\ dir[samplers[s].output_file].metrics = samplers[s].collected

\* C13 (as stated): in every interleaving of two instances, the artifact of
\* each finished session exists and holds exactly the samples of its own
\* instance.
C13_NoInterference ==
  \A s \in Samplers : samplers[s].pc = "done" => OwnArtifact(s)

\* C13 (amended): the same, for two instances whose artifact file names
\* differ (different target process, or monitor() calls in different
\* seconds).
C13_NoInterferenceDistinctFiles ==
  \A s \in Samplers :
    (/\ samplers[s].pc = "done"
     /\ \A t \in Samplers \ {s} :
          samplers[t].output_file # samplers[s].output_file) => OwnArtifact(s)

C13_Witness ==
  /\ samplers["a"].pc = "done" /\ samplers["b"].pc = "done"
  /\ samplers["a"].pid = samplers["b"].pid
  /\ samplers["a"].output_file # samplers["b"].output_file
  /\ samplers["a"].collected # <<>>
  /\ samplers["b"].collected # <<>>
  /\ samplers["a"].collected # samplers["b"].collected
  /\ OwnArtifact("a") /\ OwnArtifact("b")

====
